---- MODULE Spec2Model ----
(***************************************************************************)
(* Model of src/main.py: the Idaho climate map pipeline.  main() is one    *)
(* straight-line routine; each action below is one statement (or a short   *)
(* run of statements) of main(), in program order, with `pc` the position. *)
(* Floating point values are exact rationals [k, n, d]; not-a-number and   *)
(* the infinities are separate kinds, as in IEEE arithmetic.               *)
(***************************************************************************)
EXTENDS Integers, Sequences, FiniteSets, TLC

VARIABLES pc, err, handle, reads, overlap, src_nodata, src_transform,
          inside, data, idaho_transform, height, width, bounds,
          nodata_value, nodata_mask, vmin, vmax, norm, rgba_img,
          png, m, html

vars == <<pc, err, handle, reads, overlap, src_nodata, src_transform,
          inside, data, idaho_transform, height, width, bounds,
          nodata_value, nodata_mask, vmin, vmax, norm, rgba_img,
          png, m, html>>

----------------------------------------------------------------------------
(* Bounds of the generic inputs *)
(* the generic crop windows have at most this many cells *)
MaxCells == 4
(* rows and columns of the large grid with a single outlier cell *)
OutlierH == 4
OutlierW == 13

----------------------------------------------------------------------------
(* Numbers *)
Num(v) == [k |-> "num", n |-> v, d |-> 1]

RECURSIVE Gcd(_, _)
Gcd(a, b) == IF b = 0 THEN a ELSE Gcd(b, a % b)

Abs(a) == IF a < 0 THEN -a ELSE a

(* the rational a/b, b > 0, in lowest terms *)
Frac(a, b) ==
    LET g == Gcd(Abs(a), b)
    IN  [k |-> "num", n |-> a \div g, d |-> b \div g]
NaN == [k |-> "nan", n |-> 0, d |-> 1]
PInf == [k |-> "pinf", n |-> 0, d |-> 1]
NInf == [k |-> "ninf", n |-> 0, d |-> 1]
None == [k |-> "none", n |-> 0, d |-> 1]

IsNaN(x) == x.k = "nan"
IsNum(x) == x.k = "num"

(* IEEE comparisons: anything compared with not-a-number is false *)
FEq(x, y) ==
    \/ IsNum(x) /\ IsNum(y) /\ x.n * y.d = y.n * x.d
    \/ x.k = "pinf" /\ y.k = "pinf"
    \/ x.k = "ninf" /\ y.k = "ninf"

FLt(x, y) ==
    \/ IsNum(x) /\ IsNum(y) /\ x.n * y.d < y.n * x.d
    \/ x.k = "ninf" /\ y.k \in {"num", "pinf"}
    \/ x.k = "num" /\ y.k = "pinf"

FLe(x, y) == FLt(x, y) \/ FEq(x, y)

FSub(x, y) ==
    IF IsNaN(x) \/ IsNaN(y) THEN NaN
    ELSE IF IsNum(x) /\ IsNum(y) THEN Frac(x.n * y.d - y.n * x.d, x.d * y.d)
    ELSE IF x.k = y.k THEN NaN
    ELSE IF x.k = "pinf" \/ y.k = "ninf" THEN PInf
    ELSE NInf

(* numpy true division: x/0 is nan for x = 0 and an infinity otherwise,     *)
(* with a RuntimeWarning and no exception                                    *)
FDiv(x, y) ==
    IF IsNaN(x) \/ IsNaN(y) THEN NaN
    ELSE IF IsNum(x) /\ IsNum(y) THEN
        IF y.n = 0 THEN (IF x.n = 0 THEN NaN ELSE IF x.n > 0 THEN PInf ELSE NInf)
        ELSE IF y.n > 0 THEN Frac(x.n * y.d, x.d * y.n)
        ELSE Frac(-(x.n * y.d), x.d * (-(y.n)))
    ELSE IF ~IsNum(x) /\ ~IsNum(y) THEN NaN
    ELSE IF IsNum(x) THEN Num(0)
    ELSE IF (x.k = "pinf") = (y.n >= 0) THEN PInf
    ELSE NInf

----------------------------------------------------------------------------
(* Inputs *)
FALLBACK == -32000

(* the raster either declares a no-data value or declares none *)
SrcNodatas == {None, Num(-999)}

(* north-up, axis-aligned affine transforms: pixel width a > 0, pixel height e < 0 *)
SrcTransforms == {[a |-> 2, c |-> -120, e |-> -3, f |-> 50]}

(* row and column offset of the crop window inside the raster *)
Offsets == {<<0, 0>>, <<1, 2>>}

Cells(h, w) == (1..h) \X (1..w)

(* what a cell of the crop window is: outside the polygon union, or inside  *)
(* it and holding not-a-number, the no-data value in use, or a sample       *)
SentinelOf(nd) == IF nd = None THEN Num(FALLBACK) ELSE nd
InsideVals(nd) == {NaN, SentinelOf(nd), Num(-15), Num(0), Num(10)}

Out == [k |-> "out", n |-> 0, d |-> 1]

RowMajor(c, w) == (c[1] - 1) * w + c[2]

(* the 3x3 scenario grid, row-major, fully covered by the polygon *)
Scenario == <<-25, -15, -15, -15, 0, 0, 10, 10, 12>>
ScenarioInput ==
    [h |-> 3, w |-> 3, cell |-> [c \in Cells(3, 3) |-> Num(Scenario[RowMajor(c, 3)])]]

(* a large fully covered grid: every sample 0 but one outlier of 10 *)
OutlierInput ==
    [h |-> OutlierH, w |-> OutlierW,
     cell |-> [c \in Cells(OutlierH, OutlierW) |->
                 IF c = <<1, 1>> THEN Num(10) ELSE Num(0)]]

(* the crop windows the clip call can read: shape and contents *)
ClipInputs(nd) ==
    UNION {UNION {{[h |-> h, w |-> w, cell |-> g] :
                      g \in [Cells(h, w) -> InsideVals(nd) \cup {Out}]} :
                  w \in 1..(MaxCells \div h)} : h \in 1..MaxCells}
    \cup {ScenarioInput, OutlierInput}

----------------------------------------------------------------------------
(* Library calls made by main(), by their documented behaviour *)

(* a dataset opened without a with block: nothing closes it *)
WithExitLeak(h) == h

(* the `with` statement of line 22 closes the dataset on every exit *)
WithExit(h) == "closed"

(* rasterio.mask.mask called without nodata=: the fill value is the raster's *)
(* own no-data value, or 0 if it declares none                               *)
MaskFill(nd) == IF nd = None THEN Num(0) ELSE nd

(* filled=True: cells outside the shapes take the fill value *)
MaskedCell(v, fill) == IF v = Out THEN fill ELSE v

(* crop=True: the transform of the crop window *)
WindowTransform(t, off) ==
    [a |-> t.a, c |-> t.c + off[2] * t.a, e |-> t.e, f |-> t.f + off[1] * t.e]

(* rasterio.transform.array_bounds: (west, south, east, north) *)
ArrayBounds(h, w, t) == <<t.c, t.f + t.e * h, t.c + t.a * w, t.f>>

(* height and width passed in the wrong order *)
BoundsOfSwapped(h, w, t) ==
    LET ab == ArrayBounds(w, h, t)
    IN  <<<<ab[2], ab[1]>>, <<ab[4], ab[3]>>>>

(* lines 31-36: left, bottom, right, top = array_bounds(shape[1], shape[2], *)
(* idaho_transform); bounds = [[bottom, left], [top, right]]                 *)
BoundsOf(h, w, t) ==
    LET ab == ArrayBounds(h, w, t)
    IN  <<<<ab[2], ab[1]>>, <<ab[4], ab[3]>>>>

(* line 38 *)
NodataValue(nd) == IF nd # None THEN nd ELSE Num(FALLBACK)

(* line 39 *)
NodataMask(d, ndv) == [c \in DOMAIN d |-> FEq(d[c], ndv) \/ IsNaN(d[c])]

FAdd(x, y) ==
    IF IsNum(x) /\ IsNum(y) THEN Frac(x.n * y.d + y.n * x.d, x.d * y.d) ELSE NaN

FMul(x, y) ==
    IF IsNum(x) /\ IsNum(y) THEN Frac(x.n * y.n, x.d * y.d) ELSE NaN

(* data[~nodata_mask]: the unmasked samples, in row-major order *)
RECURSIVE Selected(_, _, _, _)
Selected(d, msk, w, k) ==
    IF k = 0 THEN <<>>
    ELSE LET c == <<((k - 1) \div w) + 1, ((k - 1) % w) + 1>>
             rest == Selected(d, msk, w, k - 1)
         IN  IF msk[c] THEN rest ELSE Append(rest, d[c])

RECURSIVE Insert(_, _)
Insert(x, s) ==
    IF s = <<>> THEN <<x>>
    ELSE IF FLe(x, Head(s)) THEN <<x>> \o s
    ELSE <<Head(s)>> \o Insert(x, Tail(s))

RECURSIVE Sort(_)
Sort(s) == IF s = <<>> THEN <<>> ELSE Insert(Head(s), Sort(Tail(s)))

(* np.percentile, default linear interpolation, on a non-empty sample:      *)
(* position (n-1)*p/100 in the sorted sample, interpolated between its      *)
(* two neighbours                                                           *)
Percentile(s, p) ==
    LET a   == Sort(s)
        num == (Len(a) - 1) * p
        lo  == (num \div 100) + 1
        rem == num % 100
    IN  IF rem = 0 THEN a[lo]
        ELSE FAdd(a[lo], FMul(Frac(rem, 100), FSub(a[lo + 1], a[lo])))

(* no clamping *)
NpClipNone(x, lo, hi) == x

(* line 41: np.clip(x, vmin, vmax) = minimum(maximum(x, vmin), vmax);       *)
(* not-a-number propagates                                                  *)
NpClip(x, lo, hi) ==
    IF IsNaN(x) \/ IsNaN(lo) \/ IsNaN(hi) THEN NaN
    ELSE LET y == IF FLt(x, lo) THEN lo ELSE x
         IN  IF FLt(hi, y) THEN hi ELSE y

(* rescaling without the shift by vmin *)
RescaleNoShift(x, lo, hi) == FDiv(x, FSub(hi, lo))

(* line 42 *)
Rescale(x, lo, hi) == FDiv(FSub(x, lo), FSub(hi, lo))

(* lines 41-42 for one cell *)
Normalize(x, lo, hi) == Rescale(NpClip(x, lo, hi), lo, hi)

(* matplotlib "jet" segment data: <<x in 1/1000, y in 1/2>> per channel *)
JetRed   == <<<<0, 0>>, <<350, 0>>, <<660, 2>>, <<890, 2>>, <<1000, 1>>>>
JetGreen == <<<<0, 0>>, <<125, 0>>, <<375, 2>>, <<640, 2>>, <<910, 0>>, <<1000, 0>>>>
JetBlue  == <<<<0, 1>>, <<110, 2>>, <<340, 2>>, <<650, 0>>, <<1000, 0>>>>

LutSize == 256

(* one channel of the lookup table at entry i: linear interpolation of the  *)
(* segment data at i/(N-1)                                                  *)
LutChannel(seg, i) ==
    LET x1000 == 1000 * i
        j == CHOOSE q \in 2..Len(seg) :
                 /\ (LutSize - 1) * seg[q][1] >= x1000
                 /\ \A r \in 2..(q - 1) : (LutSize - 1) * seg[r][1] < x1000
        dd == (LutSize - 1) * (seg[j][1] - seg[j - 1][1])
        nn == x1000 - (LutSize - 1) * seg[j - 1][1]
    IN  Frac(seg[j - 1][2] * dd + nn * (seg[j][2] - seg[j - 1][2]), 2 * dd)

(* lines 43-44: cmap(x) on floats: not-a-number takes the "bad" colour      *)
(* (0,0,0,0); otherwise entry int(x*N), x = 1 taking the last entry, with   *)
(* alpha 1                                                                  *)
LutIndex(x) ==
    IF x.k = "pinf" THEN LutSize - 1
    ELSE IF x.k = "ninf" \/ x.n < 0 THEN 0
    ELSE IF (x.n * LutSize) \div x.d >= LutSize THEN LutSize - 1
    ELSE (x.n * LutSize) \div x.d

Cmap(x) ==
    IF IsNaN(x) THEN <<Num(0), Num(0), Num(0), Num(0)>>
    ELSE LET i == LutIndex(x)
         IN  <<LutChannel(JetRed, i), LutChannel(JetGreen, i),
               LutChannel(JetBlue, i), Num(1)>>

(* the overwrite left out *)
OverwriteNone(px, masked) == px

(* line 45: rgba_img[nodata_mask, :] = [0, 0, 0, 0] *)
Overwrite(px, masked) == IF masked THEN <<Num(0), Num(0), Num(0), Num(0)>> ELSE px

(* line 46: (rgba_img * 255).astype(np.uint8) *)
ToUint8(px) == [q \in 1..4 |-> ((px[q].n * 255) \div px[q].d) % 256]

(* a clip that never raises (crop=False only warns) *)
MaskNeverRaises(ov) == FALSE

(* mask(..., crop=True) raises ValueError("Input shapes do not overlap      *)
(* raster.") when the shapes miss the raster                                *)
MaskRaises(ov) == ~ov

(* the exception swallowed and the run continued *)
OnPngErrorSwallowed == "build_map"

(* an exception raised by Image.save is not caught: it leaves main() *)
OnPngError == "failed"

----------------------------------------------------------------------------
(* State *)
EmptyGrid == [c \in {} |-> 0]
NoImage == [written |-> FALSE, h |-> 0, w |-> 0, img |-> EmptyGrid]
NoOverlay == [built |-> FALSE, image |-> "", bounds |-> <<<<0, 0>>, <<0, 0>>>>,
              opacity10 |-> 0]

Init ==
    /\ pc = "read_vector"
    /\ err = "none"
    /\ handle = "none"
    /\ reads = {}
    /\ overlap \in BOOLEAN
    /\ src_nodata \in SrcNodatas
    /\ src_transform \in SrcTransforms
    /\ inside = EmptyGrid
    /\ data = EmptyGrid
    /\ idaho_transform = [a |-> 0, c |-> 0, e |-> 0, f |-> 0]
    /\ height = 0
    /\ width = 0
    /\ bounds = <<<<0, 0>>, <<0, 0>>>>
    /\ nodata_value = None
    /\ nodata_mask = EmptyGrid
    /\ vmin = None
    /\ vmax = None
    /\ norm = EmptyGrid
    /\ rgba_img = EmptyGrid
    /\ png = NoImage
    /\ m = NoOverlay
    /\ html = [written |-> FALSE, overlay |-> NoOverlay]

rasterVars == <<overlap, src_nodata, src_transform>>
clipVars == <<inside, data, idaho_transform, height, width>>
colourVars == <<nodata_value, nodata_mask, vmin, vmax, norm, rgba_img>>
outVars == <<png, m, html>>

(* an uncaught exception ends the run *)
Fail(stage) == pc' = "failed" /\ err' = stage

(* line 21: gpd.read_file *)
ReadVector ==
    /\ pc = "read_vector"
    /\ \/ pc' = "open_raster" /\ err' = err
       \/ Fail("read_file")
    /\ UNCHANGED <<handle, reads, bounds, rasterVars, clipVars, colourVars, outVars>>

(* line 22: rasterio.open enters the with block *)
OpenRaster ==
    /\ pc = "open_raster"
    /\ \/ pc' = "crs" /\ err' = err /\ handle' = "open"
       \/ Fail("open") /\ handle' = handle
    /\ UNCHANGED <<reads, bounds, rasterVars, clipVars, colourVars, outVars>>

(* lines 23-27: read src.crs; reproject the boundaries if the CRS differs *)
CheckCrs ==
    /\ pc = "crs"
    /\ reads' = reads \cup {[attr |-> "crs", open |-> handle = "open"]}
    /\ \/ pc' = "mask" /\ err' = err /\ handle' = handle
       \/ Fail("to_crs") /\ handle' = WithExit(handle)
    /\ UNCHANGED <<bounds, rasterVars, clipVars, colourVars, outVars>>

(* lines 28-30: mask(src, idaho_shapes, crop=True); data = idaho_clipped[0] *)
Mask ==
    /\ pc = "mask"
    /\ reads' = reads \cup {[attr |-> "read", open |-> handle = "open"]}
    /\ \/ /\ MaskRaises(overlap)
          /\ Fail("mask")
          /\ handle' = WithExit(handle)
          /\ UNCHANGED clipVars
       \/ /\ ~MaskRaises(overlap)
          /\ \E in \in ClipInputs(src_nodata), off \in Offsets :
                /\ height' = in.h
                /\ width' = in.w
                /\ inside' = [c \in Cells(in.h, in.w) |-> in.cell[c] # Out]
                /\ data' = [c \in Cells(in.h, in.w) |->
                               MaskedCell(in.cell[c], MaskFill(src_nodata))]
                /\ idaho_transform' = WindowTransform(src_transform, off)
          /\ pc' = "bounds"
          /\ err' = err
          /\ handle' = handle
    /\ UNCHANGED <<bounds, rasterVars, colourVars, outVars>>

(* lines 31-37: array_bounds of the clipped array; the with block ends *)
Bounds ==
    /\ pc = "bounds"
    /\ bounds' = BoundsOf(height, width, idaho_transform)
    /\ handle' = WithExit(handle)
    /\ pc' = "nodata"
    /\ UNCHANGED <<err, reads, rasterVars, clipVars, colourVars, outVars>>

(* line 38: src.nodata is read from the dataset object after the with block *)
(* has closed it: the attribute is either still retained by the object or    *)
(* the closed dataset refuses the read                                       *)
ReadNodata ==
    /\ pc = "nodata"
    /\ reads' = reads \cup {[attr |-> "nodata", open |-> handle = "open"]}
    /\ \/ /\ nodata_value' = NodataValue(src_nodata)
          /\ pc' = "percentile"
          /\ err' = err
       \/ /\ handle # "open"
          /\ Fail("nodata")
          /\ UNCHANGED nodata_value
    /\ UNCHANGED <<handle, bounds, rasterVars, clipVars, nodata_mask, vmin, vmax,
                   norm, rgba_img, outVars>>

(* lines 39-40: the no-data mask and the 2nd and 98th percentiles of the    *)
(* unmasked samples; on an empty sample np.percentile either returns        *)
(* not-a-number or raises, depending on the numpy release                   *)
MaskPercentile ==
    /\ pc = "percentile"
    /\ LET msk == NodataMask(data, nodata_value)
           sample == Selected(data, msk, width, height * width)
       IN  /\ nodata_mask' = msk
           /\ \/ /\ sample # <<>>
                 /\ vmin' = Percentile(sample, 2)
                 /\ vmax' = Percentile(sample, 98)
                 /\ pc' = "normalize"
                 /\ err' = err
              \/ /\ sample = <<>>
                 /\ vmin' = NaN
                 /\ vmax' = NaN
                 /\ pc' = "normalize"
                 /\ err' = err
              \/ /\ sample = <<>>
                 /\ Fail("percentile")
                 /\ UNCHANGED <<vmin, vmax>>
    /\ UNCHANGED <<handle, reads, bounds, rasterVars, clipVars, nodata_value,
                   norm, rgba_img, outVars>>

(* lines 41-42: clip to [vmin, vmax] and rescale *)
ClipRescale ==
    /\ pc = "normalize"
    /\ norm' = [c \in DOMAIN data |-> Normalize(data[c], vmin, vmax)]
    /\ pc' = "colour"
    /\ UNCHANGED <<err, handle, reads, bounds, rasterVars, clipVars, nodata_value,
                   nodata_mask, vmin, vmax, rgba_img, outVars>>

(* lines 43-46: colormap, transparent no-data cells, conversion to bytes *)
Colorize ==
    /\ pc = "colour"
    /\ rgba_img' = [c \in DOMAIN norm |->
                       ToUint8(Overwrite(Cmap(norm[c]), nodata_mask[c]))]
    /\ pc' = "save_png"
    /\ UNCHANGED <<err, handle, reads, bounds, rasterVars, clipVars, nodata_value,
                   nodata_mask, vmin, vmax, norm, outVars>>

(* lines 47-48: Image.fromarray(rgba_img).save(image_path) *)
SavePng ==
    /\ pc = "save_png"
    /\ \/ /\ png' = [written |-> TRUE, h |-> height, w |-> width, img |-> rgba_img]
          /\ pc' = "build_map"
          /\ err' = err
       \/ /\ pc' = OnPngError
          /\ err' = "png"
          /\ UNCHANGED png
    /\ UNCHANGED <<handle, reads, bounds, rasterVars, clipVars, colourVars, m, html>>

(* lines 49-82: the folium map with the image overlay *)
BuildMap ==
    /\ pc = "build_map"
    /\ m' = [built |-> TRUE, image |-> "idaho_colormap_transparent.png",
             bounds |-> bounds, opacity10 |-> 5]
    /\ pc' = "save_html"
    /\ UNCHANGED <<err, handle, reads, bounds, rasterVars, clipVars, colourVars,
                   png, html>>

(* line 83: m.save("index.html") *)
SaveHtml ==
    /\ pc = "save_html"
    /\ \/ /\ html' = [written |-> TRUE, overlay |-> m]
          /\ pc' = "print"
          /\ err' = err
       \/ /\ Fail("html")
          /\ UNCHANGED html
    /\ UNCHANGED <<handle, reads, bounds, rasterVars, clipVars, colourVars, png, m>>

(* line 84 *)
Finish ==
    /\ pc = "print"
    /\ pc' = "done"
    /\ UNCHANGED <<err, handle, reads, bounds, rasterVars, clipVars, colourVars,
                   outVars>>

Next ==
    \/ ReadVector
    \/ OpenRaster
    \/ CheckCrs
    \/ Mask
    \/ Bounds
    \/ ReadNodata
    \/ MaskPercentile
    \/ ClipRescale
    \/ Colorize
    \/ SavePng
    \/ BuildMap
    \/ SaveHtml
    \/ Finish

Spec == Init /\ [][Next]_vars

----------------------------------------------------------------------------
(* Properties *)

Zero4 == <<0, 0, 0, 0>>
HasGrid == DOMAIN data # {}
HasMask == DOMAIN nodata_mask # {}
HasNorm == DOMAIN norm # {}
HasImage == DOMAIN rgba_img # {}

(* a cell of the clipped grid is no-data: the sentinel in use, or not-a-number *)
IsNoData(c) == IsNaN(data[c]) \/ data[c] = nodata_value
ValidCells == {c \in DOMAIN data : ~IsNoData(c)}
AllValid == ValidCells = DOMAIN data
NotAllEqual == \E c1, c2 \in DOMAIN data : data[c1] # data[c2]

InUnit(x) == IsNum(x) /\ 0 <= x.n /\ x.n <= x.d

(* the k-th smallest valid sample, by counting *)
OrderStat(k) ==
    CHOOSE v \in {data[c].n : c \in ValidCells} :
        /\ Cardinality({c \in ValidCells : data[c].n < v}) < k
        /\ Cardinality({c \in ValidCells : data[c].n <= v}) >= k

(* x is the p-th percentile of the valid samples, linear interpolation *)
IsPercentile(x, p) ==
    LET num == (Cardinality(ValidCells) - 1) * p
        lo  == (num \div 100) + 1
        rem == num % 100
        a0  == OrderStat(lo)
        a1  == IF rem = 0 THEN a0 ELSE OrderStat(lo + 1)
    IN  IsNum(x) /\ x.n * 100 = x.d * (100 * a0 + rem * (a1 - a0))

(* C1: every no-data cell of the clipped grid (the sentinel in use, or      *)
(* not-a-number) is the pixel (0,0,0,0) in the image written to the PNG,    *)
(* whatever its clamped and rescaled value                                  *)
C1_NoDataTransparent ==
    png.written =>
        \A c \in DOMAIN data : IsNoData(c) => png.img[c] = Zero4

(* a written PNG where a no-data cell has a rescaled value that the         *)
(* colormap would paint opaque, next to an opaque valid cell                *)
C1_Witness ==
    /\ png.written
    /\ \E c \in DOMAIN data :
           IsNoData(c) /\ IsNum(norm[c]) /\ Cmap(norm[c])[4] = Num(1)
    /\ \E c \in ValidCells : png.img[c][4] = 255

(* C2: with no declared no-data value, -32000 is the one no-data value of   *)
(* both stages: cells outside the polygon union hold -32000 and are in the  *)
(* no-data mask                                                             *)
C2_FallbackConsistent ==
    (src_nodata = None /\ HasGrid) =>
        \A c \in DOMAIN data :
            ~inside[c] => /\ data[c] = Num(FALLBACK)
                          /\ HasMask => nodata_mask[c]

(* C3: with vmin = vmax the colorizer does not fail, every valid cell has   *)
(* normalized value 0, and all valid cells share one colour with alpha 255  *)
C3_DegenerateRange ==
    (HasNorm /\ IsNum(vmin) /\ vmin = vmax) =>
        /\ \A c \in ValidCells : norm[c] = Num(0)
        /\ HasImage =>
              /\ \A c \in ValidCells : rgba_img[c][4] = 255
              /\ \A c1, c2 \in ValidCells : rgba_img[c1] = rgba_img[c2]

(* C4: when boundaries and raster do not intersect, the run never gets past *)
(* the clip call, the clip call ends it in the clip failure, and neither    *)
(* the PNG nor the HTML is written                                          *)
C4_NoOverlapFails ==
    ~overlap =>
        /\ ~png.written /\ ~html.written /\ ~m.built
        /\ pc \in {"read_vector", "open_raster", "crs", "mask", "failed"}
        /\ [attr |-> "read", open |-> TRUE] \in reads =>
              pc = "failed" /\ err = "mask"

C4_Witness == ~overlap /\ pc = "failed" /\ err = "mask" /\ ~png.written

(* C5: the HTML is written only after the PNG write succeeded; a failed PNG *)
(* write ends the run and the map steps are never reached                   *)
C5_HtmlAfterPng ==
    /\ (html.written \/ m.built \/ pc \in {"build_map", "save_html", "print", "done"})
          => png.written
    /\ err = "png" => pc = "failed" /\ ~png.written /\ ~m.built /\ ~html.written

C5_Witness == err = "png" /\ pc = "failed" /\ HasImage /\ ~html.written

(* C6: with a valid cell and vmin < vmax, every valid cell's clamped and    *)
(* rescaled value is in [0,1], vmin and vmax being the 2nd and 98th         *)
(* percentiles of the valid cells only                                      *)
C6_UnitRange ==
    (HasNorm /\ ValidCells # {} /\ FLt(vmin, vmax)) =>
        /\ IsPercentile(vmin, 2)
        /\ IsPercentile(vmax, 98)
        /\ \A c \in ValidCells : InUnit(norm[c])

(* percentiles strictly inside the valid range, with no-data cells present  *)
(* and a valid cell clamped at each end                                     *)
C6_Witness ==
    /\ HasNorm /\ FLt(vmin, vmax)
    /\ ValidCells # DOMAIN data
    /\ \E c \in ValidCells : FLt(data[c], vmin) /\ norm[c] = Num(0)
    /\ \E c \in ValidCells : FLt(vmax, data[c]) /\ norm[c] = Num(1)

C9_ReadsWhileOpen == \A r \in reads : r.open

(* C10: the raster handle is released on every exit of the raster stage,    *)
(* failures included, and before the colorizer, PNG and HTML steps          *)
C10_HandleReleased ==
    /\ pc \in {"nodata", "percentile", "normalize", "colour", "save_png",
                "build_map", "save_html", "print", "done"} => handle = "closed"
    /\ pc = "failed" => handle # "open"
    /\ handle = "open" => pc \in {"crs", "mask", "bounds"}

(* a run ended by the reprojection or the clip call, handle closed *)
C10_Witness ==
    /\ pc = "failed" /\ err \in {"to_crs", "mask"} /\ handle = "closed"
    /\ [attr |-> "crs", open |-> TRUE] \in reads

====
